---- MODULE Spec2Model ----
(***************************************************************************)
(* Model of the diagnosis viewer of assets/js/installer-tools.js          *)
(* (lines 239-451): the outcome codec, the list formatters, the timeline  *)
(* projector and the request lifecycle of the analyze button.             *)
(*                                                                         *)
(* Conventions.                                                            *)
(*  - User supplied text (cause keys, recommendations, notes, episode     *)
(*    kinds and timestamps) is a sequence of one-character strings, so    *)
(*    that replaceAll and escapeHtml work character by character; what    *)
(*    the code writes into the page is a TLA+ string built with \o.       *)
(*  - Fractions (cause weights, the confidence score) are integers in     *)
(*    thousandths; the sample values avoid exact rounding ties, where     *)
(*    binary floating point and decimal arithmetic could differ.          *)
(*  - A JavaScript value whose type matters is a record [t, n, s]:        *)
(*    t the typeof tag, n the number, s the string.                       *)
(***************************************************************************)
EXTENDS Integers, Sequences, FiniteSets, TLC

VARIABLES
    files,        \* fileInput.files[0]: NoFile or a file name
    fileName,     \* fileName.textContent
    disabled,     \* analyzeBtn.disabled
    btnText,      \* analyzeBtn.textContent
    inflight,     \* the analyze() calls suspended at an await
    submitted,    \* number of analyze() calls started so far
    alerts,       \* the text of the most recent alert(), "" before any
    consoleErrors,\* number of console.error calls
    chip,         \* confidenceChip: [text, cls]
    causesList,   \* the four list regions: [kind, text, items, muted]
    recsList,
    notesList,
    episodesList,
    chart,        \* the closure variable chart: 0 (null) or an instance id
    charts,       \* Chart instances constructed and not destroyed: [id, data]
    chartsMade,   \* number of Chart instances constructed so far
    lastTimeline, \* the timeline of the latest renderChart call that returned
    last,         \* the most recently completed analyze() call
    call          \* a single call of a pure function: [fn, arg, done, ret]

vars == <<files, fileName, disabled, btnText, inflight, submitted, alerts,
          consoleErrors, chip, causesList, recsList, notesList, episodesList,
          chart, charts, chartsMade, lastTimeline, last, call>>

(***************************************************************************)
(* Bounds of the model.                                                    *)
(***************************************************************************)
MaxSubmits == 2
MaxLen == 2
MaxTick == 4
MaxScores == 3

(***************************************************************************)
(* JavaScript values.                                                      *)
(***************************************************************************)
Num(k) == [t |-> "number", n |-> k, s |-> ""]
Str(x) == [t |-> "string", n |-> 0, s |-> x]
Undefined == [t |-> "undefined", n |-> 0, s |-> ""]
\* Object.prototype members reached through the prototype chain of an object
\* literal: methods are functions, __proto__ is Object.prototype itself.
ObjectPrototypeFunctions ==
    {"constructor", "hasOwnProperty", "isPrototypeOf", "propertyIsEnumerable",
     "toLocaleString", "toString", "valueOf"}
Inherited(key) ==
    IF key \in ObjectPrototypeFunctions THEN [t |-> "function", n |-> 0, s |-> key]
    ELSE IF key = "__proto__" THEN [t |-> "object", n |-> 0, s |-> key]
    ELSE Undefined

\* obj[key] for an object literal with the own properties `own`.
GetProp(own, key) ==
    IF key \in DOMAIN own THEN own[key] ELSE Inherited(key)

\* a ?? b
Nullish(a, b) == IF a.t = "undefined" THEN b ELSE a

Digit(d) ==
    CASE d = 0 -> "0" [] d = 1 -> "1" [] d = 2 -> "2" [] d = 3 -> "3"
      [] d = 4 -> "4" [] d = 5 -> "5" [] d = 6 -> "6" [] d = 7 -> "7"
      [] d = 8 -> "8" [] d = 9 -> "9"

RECURSIVE NatToString(_)
NatToString(n) ==
    IF n < 10 THEN Digit(n) ELSE NatToString(n \div 10) \o Digit(n % 10)

\* String(v) for the values the viewer passes: integers print in decimal, a
\* string is itself, a function prints as its source text and an object as
\* "[object Object]".
JsString(v) ==
    CASE v.t = "number" ->
            IF v.n < 0 THEN "-" \o NatToString(-v.n) ELSE NatToString(v.n)
      [] v.t = "string" -> v.s
      [] v.t = "function" -> "function " \o v.s \o "() { [native code] }"
      [] v.t = "object" -> "[object Object]"
      [] OTHER -> "undefined"

(***************************************************************************)
(* Outcome codec (lines 309-330).                                          *)
(***************************************************************************)
outcomeMap ==
    [k \in {"GOOD_CLOSE", "MARGINAL_CLOSE", "LATCH_MISS", "HARD_FAIL", "UNKNOWN"} |->
        CASE k = "GOOD_CLOSE" -> Num(2)
          [] k = "MARGINAL_CLOSE" -> Num(1)
          [] k = "LATCH_MISS" -> Num(0)
          [] k = "HARD_FAIL" -> Num(-1)
          [] k = "UNKNOWN" -> Num(-2)]

outcomeToY(outcome) == Nullish(GetProp(outcomeMap, outcome), Num(-2))

revMap ==
    [k \in {"2", "1", "0", "-1", "-2"} |->
        CASE k = "2" -> Str("GOOD")
          [] k = "1" -> Str("MARGINAL")
          [] k = "0" -> Str("LATCH MISS")
          [] k = "-1" -> Str("HARD FAIL")
          [] k = "-2" -> Str("UNKNOWN")]

\* The same lookup with the fallback label "UNKNOWN" in place of "".
yTickLabel_UnknownFallback(v) == Nullish(GetProp(revMap, JsString(v)), Str("UNKNOWN"))
yTickLabel(v) == Nullish(GetProp(revMap, JsString(v)), Str(""))

(***************************************************************************)
(* Text helpers and list formatters (lines 253-307).                       *)
(***************************************************************************)
setMuted(el, isMuted) == [el EXCEPT !.muted = isMuted]

\* toFixed(0) of x * 100, x in thousandths: the nearest integer, the larger
\* one on a tie.
pct(x) == NatToString((x + 5) \div 10) \o "%"

\* score.toFixed(2), score in thousandths.
toFixed2(x) ==
    LET h == (x + 5) \div 10
    IN  NatToString(h \div 100) \o "." \o Digit((h \div 10) % 10) \o Digit(h % 10)

escapeChar(c) ==
    CASE c = "&" -> "&amp;"
      [] c = "<" -> "&lt;"
      [] c = ">" -> "&gt;"
      [] c = "\"" -> "&quot;"
      [] c = "'" -> "&#39;"
      [] OTHER -> c

RECURSIVE escapeHtml(_)
escapeHtml(s) ==
    IF s = <<>> THEN "" ELSE escapeChar(Head(s)) \o escapeHtml(Tail(s))

\* k.replaceAll("_", " ")
replaceUnderscores(k) == [i \in 1..Len(k) |-> IF k[i] = "_" THEN " " ELSE k[i]]

\* Array.prototype.sort with (a, b) => b[1] - a[1]: descending by weight and
\* stable, as ECMAScript 2019 requires. Insertion keeps an entry after the
\* entries of equal weight that precede it.
\* The same insertion placing an entry before the entries of equal weight.
RECURSIVE insertDesc_BeforeEqual(_, _)
insertDesc_BeforeEqual(sorted, e) ==
    IF sorted = <<>> THEN <<e>>
    ELSE IF Head(sorted)[2] > e[2]
         THEN <<Head(sorted)>> \o insertDesc_BeforeEqual(Tail(sorted), e)
    ELSE <<e>> \o sorted

RECURSIVE insertDesc(_, _)
insertDesc(sorted, e) ==
    IF sorted = <<>> THEN <<e>>
    ELSE IF Head(sorted)[2] >= e[2] THEN <<Head(sorted)>> \o insertDesc(Tail(sorted), e)
    ELSE <<e>> \o sorted

RECURSIVE sortDesc(_)
sortDesc(entries) ==
    IF entries = <<>> THEN <<>>
    ELSE insertDesc(sortDesc(SubSeq(entries, 1, Len(entries) - 1)), entries[Len(entries)])

\* The content of a list region: kind "text" (textContent was set), "html"
\* (innerHTML was set, items are its child rows) or "initial" (the markup).
TextContent(t) == [kind |-> "text", text |-> t, items |-> <<>>, muted |-> FALSE]
Html(items) == [kind |-> "html", text |-> "", items |-> items, muted |-> FALSE]
InitialContent == [kind |-> "initial", text |-> "", items |-> <<>>, muted |-> TRUE]

\* scores: the entries of the object in iteration order, <<key, weight>>.
renderCauses(scores) ==
    LET entries == sortDesc(scores)
    IN  setMuted(Html([i \in 1..Len(entries) |->
                        [label |-> escapeHtml(replaceUnderscores(entries[i][1])),
                         val |-> pct(entries[i][2])]]),
                 FALSE)

\* arr: [present, val]; an absent property is undefined.
renderBullets(arr) ==
    IF ~arr.present \/ Len(arr.val) = 0
    THEN setMuted(TextContent("None"), TRUE)
    ELSE setMuted(Html([i \in 1..Len(arr.val) |-> escapeHtml(arr.val[i])]), FALSE)

\* e.start_ts || "?": null and the empty string are both falsy.
orQuestion(ts) == IF ts.isNull \/ ts.val = <<>> THEN <<"?">> ELSE ts.val

renderEpisodes(episodes) ==
    IF ~episodes.present \/ Len(episodes.val) = 0
    THEN setMuted(TextContent("None detected."), TRUE)
    ELSE setMuted(Html([i \in 1..Len(episodes.val) |->
                    LET e == episodes.val[i]
                    IN  [kind |-> escapeHtml(e.kind),
                         start |-> escapeHtml(orQuestion(e.start_ts)),
                         end |-> escapeHtml(orQuestion(e.end_ts)),
                         count |-> NatToString(e.count)]]),
                  FALSE)

\* confidenceChip after chipConfidence(level, score), score a number.
chipConfidence(level, score) ==
    [text |-> "Confidence: " \o level \o " (" \o toFixed2(score) \o ")",
     cls |-> IF level = "HIGH" THEN "chip-high"
             ELSE IF level = "MED" THEN "chip-med"
             ELSE "chip-low"]

(***************************************************************************)
(* Timeline projector (lines 333-349).                                     *)
(***************************************************************************)
pointColor(p) ==
    IF p.y = Num(-1) THEN "#ff6b6b"
    ELSE IF p.y = Num(0) THEN "#ffd166"
    ELSE IF p.y = Num(1) THEN "#8ecae6"
    ELSE IF p.y = Num(2) THEN "#AEF359"
    ELSE "#9FB0C2"

\* The same projection numbering the attempts from zero.
projectPoints_ZeroBased(timeline) ==
    [idx \in 1..Len(timeline) |->
        [x |-> idx - 1,
         y |-> outcomeToY(timeline[idx].outcome),
         dur |-> timeline[idx].duration_ms,
         hum |-> timeline[idx].hum_near,
         slow |-> timeline[idx].slow,
         wet |-> timeline[idx].wet,
         ts |-> timeline[idx].ts]]
\* points: the array index idx of the code is the sequence index minus one.
projectPoints(timeline) ==
    [idx \in 1..Len(timeline) |->
        [x |-> (idx - 1) + 1,
         y |-> outcomeToY(timeline[idx].outcome),
         dur |-> timeline[idx].duration_ms,
         hum |-> timeline[idx].hum_near,
         slow |-> timeline[idx].slow,
         wet |-> timeline[idx].wet,
         ts |-> timeline[idx].ts]]

\* The dataset handed to new Chart: the points and their colours.
chartData(timeline) ==
    LET points == projectPoints(timeline)
    IN  [points |-> points,
         colors |-> [i \in 1..Len(points) |-> pointColor(points[i])]]

(***************************************************************************)
(* The payloads the backend may answer with.                               *)
(***************************************************************************)
Present(v) == [present |-> TRUE, val |-> v]
Absent == [present |-> FALSE, val |-> <<>>]
Ts(v) == [isNull |-> FALSE, val |-> v]
NullTs == [isNull |-> TRUE, val |-> <<>>]
Hum(tenths) == [isNull |-> FALSE, tenths |-> tenths]
NullHum == [isNull |-> TRUE, tenths |-> 0]

Attempt(outcome, dur, hum, slow, wet) ==
    [outcome |-> outcome, duration_ms |-> dur, hum_near |-> hum,
     slow |-> slow, wet |-> wet, ts |-> <<"t", "1">>]

Confidence(level, score) ==
    [present |-> TRUE, level |-> level, scoreIsNumber |-> TRUE, score |-> score]
NoConfidence ==
    [present |-> FALSE, level |-> "", scoreIsNumber |-> FALSE, score |-> 0]

\* The scenario of the specification: two causes at 0.87 and one at 0.2, one
\* recommendation with markup in it, one episode with no end, two attempts.
DFull ==
    [confidence |-> Confidence("HIGH", 913),
     scores |-> Present(<< << <<"f", "_", "t">>, 200 >>,
                           << <<"h", "_", "l">>, 870 >>,
                           << <<"s", "_", "g">>, 870 >> >>),
     recommendations |-> Present(<< <<"a", "<", "b">> >>),
     notes |-> Present(<< <<"n">>, <<"&">> >>),
     episodes |-> Present(<< [kind |-> <<"w", "e", "t">>, start_ts |-> Ts(<<"t", "1">>),
                              end_ts |-> NullTs, count |-> 12] >>),
     timeline_events |-> Present(<< Attempt("HARD_FAIL", 1200, NullHum, TRUE, FALSE),
                                    Attempt("GOOD_CLOSE", 900, Hum(412), FALSE, TRUE) >>)]

\* Every collection present and empty.
DEmpty ==
    [confidence |-> Confidence("LOW", 500),
     scores |-> Present(<<>>),
     recommendations |-> Present(<<>>),
     notes |-> Present(<<>>),
     episodes |-> Present(<<>>),
     timeline_events |-> Present(<<>>)]

\* An unrecognised level and outcome; recommendations, notes and episodes absent.
DOther ==
    [confidence |-> Confidence("unexpected", 500),
     scores |-> Present(<< << <<"x">>, 1000 >> >>),
     recommendations |-> Absent,
     notes |-> Absent,
     episodes |-> Absent,
     timeline_events |-> Present(<< Attempt("JAMMED", 0, Hum(300), FALSE, FALSE) >>)]

\* DOther without its timeline_events, without its scores, and with a
\* confidence whose score is not a number.
DNoTimeline == [DOther EXCEPT !.timeline_events = Absent]
DNoScores == [DFull EXCEPT !.scores = Absent]
DBadScore == [DEmpty EXCEPT !.confidence.scoreIsNumber = FALSE]
DNoConfidence == [DEmpty EXCEPT !.confidence = NoConfidence]

Diagnoses == {DFull, DEmpty, DOther, DNoTimeline, DNoScores, DBadScore, DNoConfidence}

\* The body of a response: text that is not JSON, the JSON value null, or a
\* JSON object with the properties ok, error and diagnosis (each may be absent;
\* an absent ok reads as undefined, which is falsy like false).
Malformed == [kind |-> "malformed", ok |-> FALSE, okPresent |-> FALSE,
              error |-> "", diagnosisPresent |-> FALSE, diagnosis |-> DEmpty]
JsonNull == [Malformed EXCEPT !.kind = "null"]
Failure(error) == [kind |-> "object", ok |-> FALSE, okPresent |-> TRUE,
                   error |-> error, diagnosisPresent |-> FALSE, diagnosis |-> DEmpty]
Success(d) == [kind |-> "object", ok |-> TRUE, okPresent |-> TRUE,
               error |-> "", diagnosisPresent |-> TRUE, diagnosis |-> d]
SuccessNoDiagnosis == [Success(DEmpty) EXCEPT !.diagnosisPresent = FALSE]
EmptyObject == [Failure("") EXCEPT !.okPresent = FALSE]

\* error "" stands for an absent or empty error: both are falsy.
JsonBodies ==
    {JsonNull, Failure("bad file"), Failure(""), EmptyObject, SuccessNoDiagnosis}
        \cup {Success(d) : d \in Diagnoses}

Statuses == {200, 500}
NoFile == ""
FileNames == {"a.log", "b.log"}

(***************************************************************************)
(* Request lifecycle (lines 406-450).                                      *)
(***************************************************************************)
IdleButton == [disabled |-> FALSE, text |-> "Analyze"]
\* "Analyzing..." stands for the label of line 408, which ends in an ellipsis character.
BusyButton == [disabled |-> TRUE, text |-> "Analyzing..."]

\* The catch handler of the click listener leaving the button as it finds it.
catchButton_Unchanged(b) == b
\* Lines 447-448: the catch handler restores the button.
catchButton(b) == IdleButton

\* The branch taken only when an error message came with the response.
reportedFailure_OnError(data) == data.error # ""
\* Line 419: !data.ok, for data an object.
reportedFailure(data) == ~(data.okPresent /\ data.ok)

\* Line 420: data.error || "Analyze failed."
failureMessage(data) == IF data.error # "" THEN data.error ELSE "Analyze failed."
UnexpectedError == "Unexpected error. See console."

\* Line 402 without the call of destroy.
destroyChart_Skipped(live, c) == live
\* Line 402: if (chart) chart.destroy().
destroyChart(live, c) == IF c # 0 THEN {i \in live : i.id # c} ELSE live

NoCall == [fn |-> "none", arg |-> 0, done |-> FALSE, ret |-> 0]
NoLast == [id |-> 0, status |-> 0, body |-> Malformed, exit |-> "none", failedAt |-> "none"]

\* The markup is not part of the sources: the button may start disabled or not.
InitViewer ==
    /\ files = NoFile
    /\ fileName = ""
    /\ disabled \in BOOLEAN
    /\ btnText = "Analyze"
    /\ inflight = {}
    /\ submitted = 0
    /\ alerts = ""
    /\ consoleErrors = 0
    /\ chip = [text |-> "", cls |-> "chip-muted"]
    /\ causesList = InitialContent
    /\ recsList = InitialContent
    /\ notesList = InitialContent
    /\ episodesList = InitialContent
    /\ chart = 0
    /\ charts = {}
    /\ chartsMade = 0
    /\ lastTimeline = Absent
    /\ last = NoLast

Init == InitViewer /\ call = NoCall

display == <<chip, causesList, recsList, notesList, episodesList, chart, charts,
             chartsMade, lastTimeline>>

\* Lines 434-439: the change listener of the file input. A cancelled dialog
\* leaves no file selected.
FileChange(f) ==
    /\ f # files
    /\ files' = f
    /\ IF f = NoFile
       THEN UNCHANGED <<fileName, disabled>>
       ELSE fileName' = f /\ disabled' = FALSE
    /\ UNCHANGED <<btnText, inflight, submitted, alerts, consoleErrors, last, call>>
    /\ UNCHANGED display

\* Lines 441-450 and 406-413: a click reaches the listener only while the
\* button is enabled; analyze runs up to its first await.
Click ==
    /\ ~disabled
    /\ IF files = NoFile
       THEN UNCHANGED <<disabled, btnText, inflight, submitted>>
       ELSE /\ submitted < MaxSubmits
            /\ disabled' = BusyButton.disabled
            /\ btnText' = BusyButton.text
            /\ submitted' = submitted + 1
            /\ inflight' = inflight \cup {[id |-> submitted + 1, pc |-> "fetch", status |-> 0]}
    /\ UNCHANGED <<files, fileName, alerts, consoleErrors, last, call>>
    /\ UNCHANGED display

\* The rejection of analyze(f) reaches the catch handler (lines 444-449).
Caught(r, failedAt, b) ==
    /\ consoleErrors' = consoleErrors + 1
    /\ alerts' = UnexpectedError
    /\ disabled' = catchButton(b).disabled
    /\ btnText' = catchButton(b).text
    /\ inflight' = inflight \ {r}
    /\ last' = [id |-> r.id, status |-> r.status, body |-> Malformed,
                exit |-> "catch", failedAt |-> failedAt]

\* Line 413: fetch rejects on a network error.
FetchRejects(r) ==
    /\ r \in inflight /\ r.pc = "fetch"
    /\ Caught(r, "network", [disabled |-> disabled, text |-> btnText])
    /\ UNCHANGED <<files, fileName, submitted, call>>
    /\ UNCHANGED display

\* Line 413: fetch resolves with a response of any status.
FetchResolves(r, status) ==
    /\ r \in inflight /\ r.pc = "fetch"
    /\ inflight' = (inflight \ {r}) \cup {[r EXCEPT !.pc = "json", !.status = status]}
    /\ UNCHANGED <<files, fileName, disabled, btnText, submitted, alerts,
                   consoleErrors, last, call>>
    /\ UNCHANGED display

\* Line 414: res.json() rejects on a body that is not JSON.
JsonRejects(r) ==
    /\ r \in inflight /\ r.pc = "json"
    /\ Caught(r, "parse", [disabled |-> disabled, text |-> btnText])
    /\ UNCHANGED <<files, fileName, submitted, call>>
    /\ UNCHANGED display

\* Lines 414-432, and 444-449 when a line of them throws: res.json() resolves
\* with data, the button is restored, and the diagnosis is rendered region by
\* region until a step throws.
JsonResolves(r, data) ==
    /\ r \in inflight /\ r.pc = "json"
    /\ LET d == data.diagnosis
           isObject == data.kind = "object"
           reported == isObject /\ reportedFailure(data)
           okDiagnosis == isObject /\ ~reported /\ data.diagnosisPresent
           okChip == okDiagnosis /\ d.confidence.present /\ d.confidence.scoreIsNumber
           okCauses == okChip /\ d.scores.present
           okChart == okCauses /\ d.timeline_events.present
           threw == ~reported /\ ~okChart
           button == IF threw THEN catchButton(IdleButton) ELSE IdleButton
       IN  /\ disabled' = button.disabled
           /\ btnText' = button.text
           /\ alerts' = IF reported THEN failureMessage(data)
                        ELSE IF threw THEN UnexpectedError ELSE alerts
           /\ consoleErrors' = IF threw THEN consoleErrors + 1 ELSE consoleErrors
           /\ chip' = IF okChip THEN chipConfidence(d.confidence.level, d.confidence.score)
                      ELSE chip
           /\ causesList' = IF okCauses THEN renderCauses(d.scores.val) ELSE causesList
           /\ recsList' = IF okCauses THEN renderBullets(d.recommendations) ELSE recsList
           /\ notesList' = IF okCauses THEN renderBullets(d.notes) ELSE notesList
           /\ episodesList' = IF okCauses THEN renderEpisodes(d.episodes) ELSE episodesList
           /\ IF okChart
              THEN /\ chartsMade' = chartsMade + 1
                   /\ chart' = chartsMade + 1
                   /\ charts' = destroyChart(charts, chart) \cup
                                  {[id |-> chartsMade + 1,
                                    data |-> chartData(d.timeline_events.val)]}
                   /\ lastTimeline' = d.timeline_events
              ELSE UNCHANGED <<chart, charts, chartsMade, lastTimeline>>
           /\ last' = [id |-> r.id, status |-> r.status, body |-> data,
                       exit |-> IF reported THEN "reported"
                                ELSE IF threw THEN "catch" ELSE "rendered",
                       failedAt |-> IF threw THEN "render" ELSE "none"]
    /\ inflight' = inflight \ {r}
    /\ UNCHANGED <<files, fileName, submitted, call>>

Next ==
    \/ \E f \in FileNames \cup {NoFile} : FileChange(f)
    \/ Click
    \/ \E r \in inflight : FetchRejects(r)
    \/ \E r \in inflight, status \in Statuses : FetchResolves(r, status)
    \/ \E r \in inflight : JsonRejects(r)
    \/ \E r \in inflight, data \in JsonBodies : JsonResolves(r, data)

Spec == Init /\ [][Next]_vars

(***************************************************************************)
(* Single calls of the pure functions, on inputs drawn from bounded sets.  *)
(***************************************************************************)
SeqsUpTo(S, n) == UNION {[1..k -> S] : k \in 0..n}

Outcomes ==
    {"GOOD_CLOSE", "MARGINAL_CLOSE", "LATCH_MISS", "HARD_FAIL", "UNKNOWN",
     "", "JAMMED", "good_close", "constructor", "__proto__"}

\* What yTickLabel is called with: the tick values of the y axis (line 377)
\* and the y of a point (line 394).
TickValues == {Num(k) : k \in -MaxTick..MaxTick} \cup {outcomeToY(o) : o \in Outcomes}

Texts == {<<"a">>, <<"a", "<", "b">>, <<"&">>, <<>>}

Attempts ==
    {Attempt(o, 1200, NullHum, TRUE, FALSE) : o \in Outcomes}
        \cup {Attempt(o, 0, Hum(412), FALSE, TRUE) : o \in Outcomes}

\* Cause keys and weights; the entries of a scores object have distinct keys.
CauseKeys == {<<"f", "_", "t">>, <<"h", "_", "l">>, <<"s", "_", "g">>, <<"x">>}
Weights == {200, 870, 1000}
ScoreEntries ==
    {q \in SeqsUpTo(CauseKeys \X Weights, MaxScores) :
        \A i, j \in 1..Len(q) : i # j => q[i][1] # q[j][1]}

PureCalls ==
    {[fn |-> "outcomeToY", arg |-> o, done |-> FALSE, ret |-> 0] : o \in Outcomes}
    \cup {[fn |-> "yTickLabel", arg |-> v, done |-> FALSE, ret |-> 0] : v \in TickValues}
    \cup {[fn |-> "renderBullets", arg |-> a, done |-> FALSE, ret |-> 0] :
            a \in {Absent} \cup {Present(q) : q \in SeqsUpTo(Texts, MaxLen)}}
    \cup {[fn |-> "renderChart", arg |-> tl, done |-> FALSE, ret |-> 0] :
            tl \in SeqsUpTo(Attempts, MaxLen)}
    \cup {[fn |-> "renderCauses", arg |-> q, done |-> FALSE, ret |-> 0] :
            q \in ScoreEntries}

InitPure == InitViewer /\ call \in PureCalls

Returns(fn, ret) ==
    /\ call.fn = fn
    /\ ~call.done
    /\ call' = [call EXCEPT !.done = TRUE, !.ret = ret]
    /\ UNCHANGED <<files, fileName, disabled, btnText, inflight, submitted, alerts,
                   consoleErrors, last>>
    /\ UNCHANGED display

CallOutcomeToY == Returns("outcomeToY", outcomeToY(call.arg))
CallYTickLabel == Returns("yTickLabel", yTickLabel(call.arg))
CallRenderBullets == Returns("renderBullets", renderBullets(call.arg))
CallRenderChart == Returns("renderChart", chartData(call.arg))
\* Lines 277-285: the sorted entries and the rows written from them.
CallRenderCauses ==
    Returns("renderCauses", [entries |-> sortDesc(call.arg), el |-> renderCauses(call.arg)])

NextPure ==
    \/ CallOutcomeToY \/ CallYTickLabel \/ CallRenderBullets \/ CallRenderChart
    \/ CallRenderCauses

SpecPure == InitPure /\ [][NextPure]_vars

(***************************************************************************)
(* Properties.                                                             *)
(***************************************************************************)
\* An analyze() call completed in this step.
Completes == last'.id # last.id

SuccessStatus(status) == status >= 200 /\ status <= 299

\* C1: at most one analysis request is in flight in every reachable state.
C1_OneInFlight == Cardinality(inflight) <= 1

\* C2: the step in which a submission completes, on whatever path (rendered,
\* reported failure, network error, malformed body, exception while
\* rendering), leaves the button enabled with its idle label.
C2_ButtonRestored ==
    [][Completes => (~disabled' /\ btnText' = "Analyze")]_vars

\* A submission that ended in the catch handler because rendering threw, with
\* the button enabled again.
C2_Witness ==
    /\ last.exit = "catch" /\ last.failedAt = "render"
    /\ ~disabled /\ btnText = "Analyze"

\* C3: a network error, a non-success status or a malformed body ends in the
\* generic unexpected-error report with the button enabled; a response with
\* a non-success status never takes the reported-failure or the render path.
C3_TransportFailure ==
    [][(Completes /\ (last'.failedAt \in {"network", "parse"}
                        \/ ~SuccessStatus(last'.status)))
        => (/\ last'.exit = "catch"
            /\ alerts' = UnexpectedError
            /\ ~disabled' /\ btnText' = "Analyze")]_vars

\* C4: a response with ok false shows the server's error message (the default
\* one when error is absent or empty), does not throw, leaves the button
\* enabled, and leaves every display region as it was.
C4_ReportedFailure ==
    [][(Completes /\ last'.body.kind = "object"
                  /\ last'.body.okPresent /\ ~last'.body.ok)
        => (/\ alerts' = (IF last'.body.error # "" THEN last'.body.error
                          ELSE "Analyze failed.")
            /\ last'.exit = "reported"
            /\ consoleErrors' = consoleErrors
            /\ ~disabled' /\ btnText' = "Analyze"
            /\ UNCHANGED display)]_vars

\* A reported failure without an error message, after a diagnosis was rendered.
C4_Witness ==
    /\ last.exit = "reported" /\ last.body = Failure("")
    /\ alerts = "Analyze failed."
    /\ chart # 0 /\ causesList.kind = "html"

\* Every region shows diagnosis d.
Shows(d) ==
    /\ chip = chipConfidence(d.confidence.level, d.confidence.score)
    /\ causesList = renderCauses(d.scores.val)
    /\ recsList = renderBullets(d.recommendations)
    /\ notesList = renderBullets(d.notes)
    /\ episodesList = renderEpisodes(d.episodes)
    /\ chart # 0
    /\ \E c \in charts : c.id = chart /\ c.data = chartData(d.timeline_events.val)

\* analyze renders d to the end: no step of lines 424-431 throws.
Renderable(d) ==
    /\ d.confidence.present /\ d.confidence.scoreIsNumber
    /\ d.scores.present /\ d.timeline_events.present

NothingShown ==
    /\ chip.cls = "chip-muted"
    /\ causesList = InitialContent /\ recsList = InitialContent
    /\ notesList = InitialContent /\ episodesList = InitialContent
    /\ chart = 0

\* C5: in every reachable state all display regions reflect one and the same
\* diagnosis payload (or none has been rendered yet).
C5_FullyOverwritten ==
    NothingShown \/ \E d \in Diagnoses : Renderable(d) /\ Shows(d)

\* The ordinal table of the outcome codec.
TableOrdinal(outcome) ==
    CASE outcome = "GOOD_CLOSE" -> 2
      [] outcome = "MARGINAL_CLOSE" -> 1
      [] outcome = "LATCH_MISS" -> 0
      [] outcome = "HARD_FAIL" -> -1
      [] OTHER -> -2

\* C6: outcomeToY returns 2, 1, 0, -1, -2 for the five recognised outcomes
\* and the number -2 for every other string.
C6_OutcomeTotal ==
    (call.fn = "outcomeToY" /\ call.done) => call.ret = Num(TableOrdinal(call.arg))

\* The label table of the outcome codec, with `other` for the rest.
TableLabel(n, other) ==
    CASE n = 2 -> "GOOD"
      [] n = 1 -> "MARGINAL"
      [] n = 0 -> "LATCH MISS"
      [] n = -1 -> "HARD FAIL"
      [] n = -2 -> "UNKNOWN"
      [] OTHER -> other

\* C7 as stated: yTickLabel returns the five labels for 2, 1, 0, -1, -2 and
\* the label UNKNOWN for any other number.
C7_UnknownLabel ==
    (call.fn = "yTickLabel" /\ call.done /\ call.arg.t = "number")
        => call.ret = Str(TableLabel(call.arg.n, "UNKNOWN"))

\* C7 amended: yTickLabel returns the five labels for 2, 1, 0, -1, -2 and the
\* empty string for any other number.
C7_EmptyLabel ==
    (call.fn = "yTickLabel" /\ call.done /\ call.arg.t = "number")
        => call.ret = Str(TableLabel(call.arg.n, ""))

\* yTickLabel was called with a number outside the table and returned "".
C7_Witness ==
    /\ call.fn = "yTickLabel" /\ call.done
    /\ call.arg = Num(3) /\ call.ret = Str("")

IsSentinel(el, text) == el.kind = "text" /\ el.text = text /\ el.muted
EmptyOrAbsent(c) == ~c.present \/ Len(c.val) = 0

\* C8: a diagnosis with a well-formed confidence renders without raising
\* whichever of its collections are empty or absent, and each such region
\* shows a muted sentinel (the chart never an empty dataset); the bullet
\* formatter yields one item per element, in order, unmuted, for a non-empty
\* sequence.
C8_DataGaps ==
    /\ (/\ last.body.kind = "object" /\ last.body.okPresent /\ last.body.ok
        /\ last.body.diagnosisPresent
        /\ last.body.diagnosis.confidence.present
        /\ last.body.diagnosis.confidence.scoreIsNumber)
       => LET d == last.body.diagnosis
          IN  /\ last.exit = "rendered"
              /\ EmptyOrAbsent(d.scores) => IsSentinel(causesList, "None")
              /\ EmptyOrAbsent(d.recommendations) => IsSentinel(recsList, "None")
              /\ EmptyOrAbsent(d.notes) => IsSentinel(notesList, "None")
              /\ EmptyOrAbsent(d.episodes) => IsSentinel(episodesList, "None detected.")
              /\ EmptyOrAbsent(d.timeline_events) =>
                    \A c \in charts : c.id = chart => c.data.points # <<>>
    /\ (call.fn = "renderBullets" /\ call.done)
       => IF EmptyOrAbsent(call.arg)
          THEN IsSentinel(call.ret, "None")
          ELSE /\ call.ret.kind = "html" /\ ~call.ret.muted
               /\ Len(call.ret.items) = Len(call.arg.val)
               /\ \A i \in 1..Len(call.arg.val) :
                    call.ret.items[i] = escapeHtml(call.arg.val[i])

\* C9: at most one Chart instance is constructed and not destroyed, the
\* variable chart refers to it, it is the latest one constructed, and it
\* holds the data of the latest timeline rendered.
C9_OneChart ==
    /\ Cardinality(charts) <= 1
    /\ chart = chartsMade
    /\ chart = 0 => charts = {}
    /\ chart # 0 => charts = {[id |-> chart, data |-> chartData(lastTimeline.val)]}
    /\ last.exit = "rendered" =>
         charts = {[id |-> chart,
                    data |-> chartData(last.body.diagnosis.timeline_events.val)]}

\* A second chart was constructed and one instance is live.
C9_Witness == chartsMade >= 2 /\ Cardinality(charts) = 1 /\ last.exit = "rendered"

\* The colour table of the timeline projector.
TableColor(y) ==
    CASE y = Num(-1) -> "#ff6b6b"
      [] y = Num(0) -> "#ffd166"
      [] y = Num(1) -> "#8ecae6"
      [] y = Num(2) -> "#AEF359"
      [] OTHER -> "#9FB0C2"

\* C10: n attempt records give n points in the same order; the point of the
\* record at 0-based position i has x = i + 1, y = outcomeToY(outcome), the
\* fields duration_ms, hum_near, slow, wet, ts unchanged, and its colour is
\* decided by y alone.
C10_Projection ==
    (call.fn = "renderChart" /\ call.done)
        => LET tl == call.arg
               pts == call.ret.points
               cols == call.ret.colors
           IN  /\ Len(pts) = Len(tl) /\ Len(cols) = Len(tl)
               /\ \A i \in 0..(Len(tl) - 1) :
                    /\ pts[i + 1].x = i + 1
                    /\ pts[i + 1].y = outcomeToY(tl[i + 1].outcome)
                    /\ pts[i + 1].dur = tl[i + 1].duration_ms
                    /\ pts[i + 1].hum = tl[i + 1].hum_near
                    /\ pts[i + 1].slow = tl[i + 1].slow
                    /\ pts[i + 1].wet = tl[i + 1].wet
                    /\ pts[i + 1].ts = tl[i + 1].ts
                    /\ cols[i + 1] = TableColor(pts[i + 1].y)

\* Two attempts with different outcomes, the second unrecognised, projected.
C10_Witness ==
    /\ call.fn = "renderChart" /\ call.done
    /\ Len(call.arg) = 2
    /\ call.arg[1].outcome = "HARD_FAIL" /\ call.arg[2].outcome = "JAMMED"
    /\ call.ret.points[2].x = 2 /\ call.ret.colors[1] = "#ff6b6b"

\* The position of entry e in the sequence q of entries with distinct keys.
PositionOf(q, e) == CHOOSE i \in 1..Len(q) : q[i] = e

\* C11: the ranked causes are a permutation of the entries of scores, their
\* weights never increase from one row to the next, entries of equal weight
\* keep the order they had in the input, and the rows are written in that
\* ranked order.
C11_StableRanking ==
    (call.fn = "renderCauses" /\ call.done)
        => LET in == call.arg
               out == call.ret.entries
               rows == call.ret.el.items
           IN  /\ Len(out) = Len(in)
               /\ {out[i] : i \in 1..Len(out)} = {in[i] : i \in 1..Len(in)}
               /\ \A i \in 1..(Len(out) - 1) : out[i][2] >= out[i + 1][2]
               /\ \A i, j \in 1..Len(in) :
                    (i < j /\ in[i][2] = in[j][2])
                        => PositionOf(out, in[i]) < PositionOf(out, in[j])
               /\ Len(rows) = Len(out)
               /\ \A i \in 1..Len(out) :
                    /\ rows[i].label = escapeHtml(replaceUnderscores(out[i][1]))
                    /\ rows[i].val = pct(out[i][2])

\* The scenario of the specification: fast_travel 0.2, then two causes tied
\* at 0.87, ranked with the tied causes first and in their input order.
C11_Witness ==
    /\ call.fn = "renderCauses" /\ call.done
    /\ call.arg = << << <<"f", "_", "t">>, 200 >>,
                     << <<"h", "_", "l">>, 870 >>,
                     << <<"s", "_", "g">>, 870 >> >>
    /\ call.ret.entries = << << <<"h", "_", "l">>, 870 >>,
                             << <<"s", "_", "g">>, 870 >>,
                             << <<"f", "_", "t">>, 200 >> >>
    /\ call.ret.el.items[1] = [label |-> "h l", val |-> "87%"]
    /\ call.ret.el.items[3] = [label |-> "f t", val |-> "20%"]

====
